---------------------------- MODULE Spec2Model ----------------------------
(***************************************************************************)
(* Model of src/main.py: the audio-analysis job that, for every configured *)
(* YouTube channel, finds the latest video, skips it when the Google sheet *)
(* already lists its id, downloads its audio with yt-dlp, has Gemini       *)
(* summarise it, pushes the summary to LINE and appends a row to the sheet.*)
(*                                                                         *)
(* The job is single-threaded.  One behaviour of the model is a sequence   *)
(* of runs of the script (one process each, any number of them) against    *)
(* the same sheet and working directory.  Every external call (feed, sheet, yt-dlp,      *)
(* Gemini, LINE, the local file system) is a nondeterministic choice over  *)
(* the results that call can produce.                                      *)
(***************************************************************************)
EXTENDS Integers, Sequences, FiniteSets, TLC

(***************************************************************************)
(* Bounds of the model.                                                    *)
(***************************************************************************)
\* number of comma-separated pieces in YOUTUBE_CHANNEL_ID
MaxPieces == 2
\* number of videos a channel's feed can show as its latest entry
MaxVideos == 1
\* length of the header of a message (titles and link, line 157)
HeaderLen == 60

(***************************************************************************)
(* Program constants.                                                      *)
(***************************************************************************)
\* message[:4000], line 132
LineLimit == 4000

None == "None"
NoVideo == [ch |-> "None", n |-> 0]

\* The pieces CHANNEL_IDS_RAW.split(",") can yield: an empty piece (the
\* variable is unset or empty, or two commas in a row), and channel ids
\* with or without surrounding blanks.
Pieces == {"", "UC_A", " UC_B "}

\* x.strip(), line 14
strip(x) == IF x = " UC_B " THEN "UC_B" ELSE x

Channels == {strip(x) : x \in Pieces} \ {""}

RECURSIVE parse_channel_ids(_)
\* [x.strip() for x in CHANNEL_IDS_RAW.split(",") if x.strip()], line 14
parse_channel_ids(raw) ==
    IF raw = <<>> THEN <<>>
    ELSE IF strip(Head(raw)) # ""
         THEN <<strip(Head(raw))>> \o parse_channel_ids(Tail(raw))
         ELSE parse_channel_ids(Tail(raw))

\* split(",") of any string has at least one piece
RawInputs == UNION {[1..n -> Pieces] : n \in 1..MaxPieces}

\* The videos (identified by yt_videoid) a channel's feed can show.
VideosOf(cid) == {[ch |-> cid, n |-> k] : k \in 1..MaxVideos}

Videos == UNION {VideosOf(c) : c \in Channels}

\* The files of the working directory the program touches.
CookieFile == "cookies.txt"
RawFile == "temp_audio"
FinalFile == "temp_audio.mp3"
FileNames == {CookieFile, RawFile, FinalFile}
Absent == [ch |-> "absent", n |-> 0]
Secret == [ch |-> "cookies", n |-> 0]

Min(a, b) == IF a < b THEN a ELSE b

VARIABLES
    CHANNEL_IDS,    \* line 14: the parsed source list
    GCP_SA_KEY,     \* lines 23-27 and 15: TRUE iff the key and SHEET_ID are set
    COOKIES_CONTENT,\* line 21: TRUE iff YOUTUBE_COOKIES is set
    pc,             \* position of the process
    idx,            \* position of main's for loop in CHANNEL_IDS
    video,          \* process_channel: the item found, or None
    sheet,          \* process_channel: TRUE iff a worksheet handle is held
    audio_file,     \* process_channel: the name download_audio returned
    file_state,     \* analyze_audio_with_gemini: audio_file.state.name
    summary,        \* process_channel: the text Gemini returned
    result,         \* how the current process_channel call ends
    store,          \* the sheet: the number of rows whose column 1 is an id
    files,          \* working directory: file name -> whose content it holds
    line,           \* the push calls made since process_channel was called
    exit_code,      \* -1 while the process runs, then its exit status
    errors,         \* the "Error: ..." lines main has printed in this run
    store0,         \* the sheet when the current process_channel call began
    tried,          \* the acquisition strategies this call has started
    files0,         \* the working directory when the current call began
    calls,          \* the external services this call has called so far
    polls           \* the parity of the get_file calls of the polling loop

vars == <<CHANNEL_IDS, GCP_SA_KEY, COOKIES_CONTENT, pc, idx, video, sheet,
          audio_file, file_state, summary, result, store, files, line,
          exit_code, errors, store0, tried, files0, calls, polls>>

config == <<CHANNEL_IDS, GCP_SA_KEY, COOKIES_CONTENT>>
locals == <<video, sheet, audio_file, file_state, summary>>
ghost == <<store0, tried, files0>>
world == <<store, files, line>>
process == <<exit_code, errors>>

NoSummary == [of |-> Absent, len |-> 0]

EmptySheet == [v \in Videos |-> 0]

Init ==
    /\ \E raw \in RawInputs : CHANNEL_IDS = parse_channel_ids(raw)
    /\ GCP_SA_KEY \in BOOLEAN
    /\ COOKIES_CONTENT \in BOOLEAN
    /\ pc = "main"
    /\ idx = 1
    /\ video = NoVideo
    /\ sheet = FALSE
    /\ audio_file = None
    /\ file_state = None
    /\ summary = NoSummary
    /\ result = None
    /\ store = EmptySheet
    /\ files = [f \in FileNames |-> Absent]
    /\ line = <<>>
    /\ exit_code = -1
    /\ errors = 0
    /\ store0 = EmptySheet
    /\ tried = <<>>
    /\ files0 = [f \in FileNames |-> Absent]
    /\ calls = {}
    /\ polls = 0

(***************************************************************************)
(* Pure parts of the program.                                              *)
(***************************************************************************)

\* Mutant of check_if_processed: the membership test looks at the wrong
\* column and never finds the id.
check_if_processed_wrong_column(video_id, reachable) ==
    IF ~GCP_SA_KEY THEN <<FALSE, FALSE>>
    ELSE IF reachable THEN <<FALSE, TRUE>>
    ELSE <<FALSE, FALSE>>

\* Mutant of check_if_processed: a failed read still hands back a handle.
check_if_processed_keeps_handle(video_id, reachable) ==
    IF ~GCP_SA_KEY THEN <<FALSE, FALSE>>
    ELSE <<reachable /\ store[video_id] > 0, TRUE>>

\* Mutant of check_if_processed: a failed or impossible read fails closed,
\* the item is reported as already processed.
check_if_processed_fails_closed(video_id, reachable) ==
    IF ~GCP_SA_KEY THEN <<TRUE, FALSE>>
    ELSE IF reachable THEN <<store[video_id] > 0, TRUE>>
    ELSE <<TRUE, FALSE>>

\* check_if_processed, lines 53-60.  reachable: opening and reading the
\* sheet did not raise.  Returns <<is_processed, sheet>>.
check_if_processed(video_id, reachable) ==
    IF ~GCP_SA_KEY THEN <<FALSE, FALSE>>
    ELSE IF reachable THEN <<store[video_id] > 0, TRUE>>
    ELSE <<FALSE, FALSE>>

\* The texts of the program are a header built from one item followed by a
\* summary of one audio content; the program only ever takes prefixes of
\* them, so a text is modelled by the item, the content and its length.
\* final_msg, line 157
final_msg(v, s) == [item |-> v, of |-> s.of, len |-> HeaderLen + s.len]

\* message[:4000], line 132
truncate(message) == [message EXCEPT !.len = Min(message.len, LineLimit)]

\* The lengths of the summaries Gemini returns: short, and around the limit.
SummaryLens == {1, LineLimit - HeaderLen, LineLimit - HeaderLen + 1}

\* os.remove(name) when os.path.exists(name)
remove(fs, name) == [fs EXCEPT ![name] = Absent]

(***************************************************************************)
(* main, lines 170-179.                                                    *)
(***************************************************************************)

\* for cid in CHANNEL_IDS: process_channel(cid), lines 172-174
CallProcessChannel ==
    /\ pc = "main"
    /\ idx <= Len(CHANNEL_IDS)
    /\ pc' = "get_latest_video"
    /\ store0' = store
    /\ tried' = <<>>
    /\ files0' = files
    /\ calls' = {}
    /\ UNCHANGED <<config, idx, locals, result, world, process, polls>>

\* process_channel returns (r names the return taken), or raises
\* (r = "error")
Return(r) ==
    /\ result' = r
    /\ pc' = "return"

\* Mutant of main_loop: a source whose processing raised is tried again
\* instead of the loop going on to the next one.
main_loop_retry(r) ==
    [pc |-> "main",
     idx |-> IF r = "error" THEN idx ELSE idx + 1,
     exit_code |-> -1,
     errors |-> errors]

\* Mutant of main_loop: no try/except around process_channel, so a raised
\* error ends the run with a traceback and exit status 1.
main_loop_no_except(r) ==
    IF r = "error"
    THEN [pc |-> "exit", idx |-> idx, exit_code |-> 1, errors |-> errors + 1]
    ELSE [pc |-> "main", idx |-> idx + 1, exit_code |-> -1, errors |-> errors]

\* What main does when process_channel(cid) ends (lines 173-176): a raised
\* Exception is caught and printed; either way the loop goes on.
main_loop(r) ==
    [pc |-> "main", idx |-> idx + 1, exit_code |-> -1,
     errors |-> IF r = "error" THEN errors + 1 ELSE errors]

\* back in main's loop; the frame of process_channel is gone
LoopNext ==
    /\ pc = "return"
    /\ pc' = main_loop(result).pc
    /\ idx' = main_loop(result).idx
    /\ exit_code' = main_loop(result).exit_code
    /\ errors' = main_loop(result).errors
    /\ video' = NoVideo
    /\ sheet' = FALSE
    /\ audio_file' = None
    /\ file_state' = None
    /\ summary' = NoSummary
    /\ result' = None
    /\ line' = <<>>
    /\ files0' = files
    /\ calls' = {}
    /\ UNCHANGED <<config, store, files, store0, tried, polls>>

\* the loop is over: main returns and the interpreter exits with status 0
MainReturn ==
    /\ pc = "main"
    /\ idx > Len(CHANNEL_IDS)
    /\ pc' = "exit"
    /\ exit_code' = 0
    /\ UNCHANGED <<config, idx, locals, result, world, errors, ghost, calls,
                   polls>>

\* the scheduler starts the script again: a new process, the same
\* configuration, sheet and working directory
NextRun ==
    /\ pc = "exit"
    /\ exit_code = 0
    /\ pc' = "main"
    /\ idx' = 1
    /\ exit_code' = -1
    /\ errors' = 0
    /\ UNCHANGED <<config, locals, result, world, ghost, calls, polls>>

(***************************************************************************)
(* process_channel, lines 135-168.                                         *)
(***************************************************************************)

\* Mutant of GetLatestVideo: a feed without an item is not caught, the
\* failure propagates out of process_channel.
GetLatestVideo_raises ==
    /\ pc = "get_latest_video"
    /\ \E v \in VideosOf(CHANNEL_IDS[idx]) \cup {NoVideo} :
          /\ video' = v
          /\ IF v = NoVideo
             THEN Return("error")
             ELSE /\ pc' = "check_if_processed"
                  /\ UNCHANGED result
    /\ calls' = calls \cup {"feed"}
    /\ UNCHANGED <<config, idx, sheet, audio_file, file_state, summary,
                   world, process, ghost, polls>>

\* video = get_latest_video(channel_id); if not video: return
\* (lines 137-138; get_latest_video, lines 39-51, returns None when the
\* feed has no entry or fetching or reading it raises)
GetLatestVideo ==
    /\ pc = "get_latest_video"
    /\ \E v \in VideosOf(CHANNEL_IDS[idx]) \cup {NoVideo} :
          /\ video' = v
          /\ IF v = NoVideo
             THEN Return("no_video")
             ELSE /\ pc' = "check_if_processed"
                  /\ UNCHANGED result
    /\ calls' = calls \cup {"feed"}
    /\ UNCHANGED <<config, idx, sheet, audio_file, file_state, summary,
                   world, process, ghost, polls>>

\* Mutant of CheckIfProcessed: the cookies are staged before the check, so
\* a skipped item leaves cookies.txt behind.
CheckIfProcessed_stages_first ==
    /\ pc = "check_if_processed"
    /\ \E reachable \in BOOLEAN :
          LET r == check_if_processed(video, reachable) IN
          /\ sheet' = r[2]
          /\ IF r[1]
             THEN Return("skipped")
             ELSE /\ pc' = "download_audio"
                  /\ UNCHANGED result
    /\ calls' = IF GCP_SA_KEY THEN calls \cup {"sheet_read"} ELSE calls
    /\ files' = IF COOKIES_CONTENT THEN [files EXCEPT ![CookieFile] = Secret]
                ELSE files
    /\ UNCHANGED <<config, idx, video, audio_file, file_state, summary,
                   store, line, process, ghost, polls>>

\* is_processed, sheet = check_if_processed(video['id']);
\* if is_processed: return   (lines 142-145)
CheckIfProcessed ==
    /\ pc = "check_if_processed"
    /\ \E reachable \in BOOLEAN :
          LET r == check_if_processed(video, reachable) IN
          /\ sheet' = r[2]
          /\ IF r[1]
             THEN Return("skipped")
             ELSE /\ pc' = "download_audio"
                  /\ UNCHANGED result
    /\ calls' = IF GCP_SA_KEY THEN calls \cup {"sheet_read"} ELSE calls
    /\ UNCHANGED <<config, idx, video, audio_file, file_state, summary,
                   world, process, ghost, polls>>

\* Mutant of acquisition: a transcript strategy is started first.
acquisition_transcript_first(k) == IF k = 1 THEN "transcript" ELSE "audio"

\* The content acquisition of process_channel (lines 147-152): the k-th
\* strategy it starts for an item.  The only one is the audio download.
acquisition(k) == "audio"

\* The ways "with open(cookie_file, "w") as f: f.write(...)" can end
\* (lines 69-70): the file is written; open raises and no file is made;
\* write raises and leaves the file open made.
WriteResults == {"written", "open_error", "write_error"}

\* audio_file = download_audio(video['link']), first part (lines 64-72):
\* the cookies are written to cookies.txt, outside any try block, so a
\* failing open or write raises out of process_channel into main.
WriteCookies ==
    /\ pc = "download_audio"
    /\ tried' = Append(tried, acquisition(Len(tried) + 1))
    /\ IF COOKIES_CONTENT
       THEN \E how \in WriteResults :
              /\ files' = IF how = "open_error" THEN files
                          ELSE [files EXCEPT ![CookieFile] = Secret]
              /\ IF how = "written"
                 THEN pc' = "ydl_download" /\ UNCHANGED result
                 ELSE Return("error")
       ELSE /\ pc' = "ydl_download"
            /\ UNCHANGED <<result, files>>
    /\ UNCHANGED <<config, idx, locals, store, line, process, store0,
                   files0, calls, polls>>

\* What ydl.download leaves in the working directory (lines 74-91).  With
\* outtmpl "temp_audio" yt-dlp fetches the media into temp_audio (a file of
\* that name already there is taken as already downloaded), and the
\* FFmpegExtractAudio postprocessor then writes temp_audio.mp3 and deletes
\* temp_audio.  how: "ok", "fetch_error" (nothing fetched, DownloadError),
\* "pp_error" (fetched, the postprocessor raised), "no_output" (returned
\* without producing the mp3).
ydl_download(fs, v, how) ==
    LET src == IF fs[RawFile] # Absent THEN fs[RawFile] ELSE v IN
    CASE how = "ok" -> [fs EXCEPT ![RawFile] = Absent, ![FinalFile] = src]
      [] how = "pp_error" -> [fs EXCEPT ![RawFile] = src]
      [] OTHER -> fs

DownloadResults == {"ok", "fetch_error", "pp_error", "no_output"}

\* download_audio, second part (lines 89-107): cookies.txt is removed
\* whether ydl.download raised or not; the result is temp_audio.mp3 when
\* the download did not raise and that file exists, else None.
download_audio(fs, v, how) ==
    LET after == ydl_download(fs, v, how) IN
    [files |-> remove(after, CookieFile),
     ret |-> IF how \in {"ok", "no_output"} /\ after[FinalFile] # Absent
             THEN FinalFile ELSE None]

\* audio_file = download_audio(...); if not audio_file: return
\* (lines 148-152)
YdlDownload ==
    /\ pc = "ydl_download"
    /\ \E how \in DownloadResults :
          LET d == download_audio(files, video, how) IN
          /\ files' = d.files
          /\ IF d.ret = None
             THEN Return("download_failed") /\ UNCHANGED audio_file
             ELSE /\ audio_file' = d.ret
                  /\ pc' = "upload"
                  /\ UNCHANGED result
    /\ calls' = calls \cup {"ydl"}
    /\ UNCHANGED <<config, idx, video, sheet, file_state, summary, store,
                   line, process, ghost, polls>>

(***************************************************************************)
(* analyze_audio_with_gemini, lines 109-127, called inside the try block   *)
(* of process_channel (line 155): whatever it raises is caught at line 164 *)
(* and the finally clause runs.                                            *)
(***************************************************************************)

FileStates == {"PROCESSING", "ACTIVE", "FAILED", "STATE_UNSPECIFIED"}

\* Mutant of Except: an exception of the notifier is swallowed and the row
\* is appended all the same.
Except_swallow_send(r) ==
    /\ result' = IF r = "send_error" THEN result ELSE r
    /\ pc' = IF r = "send_error" THEN "append_row" ELSE "finally"

\* except Exception (lines 164-165), then the finally clause; r names the
\* call that raised
Except(r) ==
    /\ result' = r
    /\ pc' = "finally"

\* audio_file = genai.upload_file(path=audio_path), line 113
Upload ==
    /\ pc = "upload"
    /\ \E r \in FileStates \cup {"raise"} :
          IF r = "raise"
          THEN Except("analysis_error") /\ UNCHANGED file_state
          ELSE /\ file_state' = r
               /\ pc' = "poll"
               /\ UNCHANGED result
    /\ calls' = calls \cup {"gemini_files"}
    /\ UNCHANGED <<config, idx, video, sheet, audio_file, summary,
                   world, process, ghost, polls>>

\* while state == "PROCESSING": sleep; get_file, lines 115-118
Poll ==
    /\ pc = "poll"
    /\ file_state = "PROCESSING"
    /\ \E r \in FileStates \cup {"raise"} :
          IF r = "raise"
          THEN Except("analysis_error") /\ UNCHANGED file_state /\ polls' = 0
          ELSE /\ file_state' = r
               /\ polls' = IF r = "PROCESSING" THEN (polls + 1) % 2 ELSE 0
               /\ UNCHANGED <<pc, result>>
    /\ UNCHANGED <<config, idx, video, sheet, audio_file, summary,
                   world, process, ghost, calls>>

\* Mutant of Generate: the FAILED state is not tested after the polling
\* loop, generation is requested for a failed file too.
Generate_no_failed_check ==
    /\ pc = "poll"
    /\ file_state # "PROCESSING"
    /\ \E n \in SummaryLens \cup {-1} :
          /\ calls' = calls \cup {"gemini_generate"}
          /\ IF n = -1
             THEN Except("analysis_error") /\ UNCHANGED summary
             ELSE /\ summary' = [of |-> files[audio_file], len |-> n]
                  /\ pc' = "send_line_message"
                  /\ UNCHANGED result
    /\ UNCHANGED <<config, idx, video, sheet, audio_file, file_state,
                   world, process, ghost, polls>>

\* if state == "FAILED": raise; generate_content; return response.text
\* (lines 120-127)
Generate ==
    /\ pc = "poll"
    /\ file_state # "PROCESSING"
    /\ IF file_state = "FAILED"
       THEN Except("analysis_error") /\ UNCHANGED <<summary, calls>>
       ELSE \E n \in SummaryLens \cup {-1} :
              /\ calls' = calls \cup {"gemini_generate"}
              /\ IF n = -1
                 THEN Except("analysis_error") /\ UNCHANGED summary
                 ELSE /\ summary' = [of |-> files[audio_file], len |-> n]
                      /\ pc' = "send_line_message"
                      /\ UNCHANGED result
    /\ UNCHANGED <<config, idx, video, sheet, audio_file, file_state,
                   world, process, ghost, polls>>

\* The answers of requests.post (line 133): a success response, a
\* non-success response, or an exception (no connection).
PostResults == {"ok", "rejected", "raise"}

\* Mutant of send_line_message: a push that is answered with a non-success
\* response is sent a second time.
send_line_message_retry(message, resp) ==
    IF resp = "rejected"
    THEN <<[text |-> truncate(message), resp |-> resp],
           [text |-> truncate(message), resp |-> "ok"]>>
    ELSE <<[text |-> truncate(message), resp |-> resp]>>

\* Mutant of send_line_message: a message over the limit is not sent.
send_line_message_rejects_long(message, resp) ==
    IF message.len > LineLimit THEN <<>>
    ELSE <<[text |-> message, resp |-> resp]>>

\* send_line_message, lines 129-133: one requests.post whose text is the
\* message cut to LineLimit; the response is not looked at.
send_line_message(message, resp) == <<[text |-> truncate(message), resp |-> resp]>>

\* Mutant of Send: the response is checked (raise_for_status), so a
\* non-success response raises like a failed connection.
Send_raise_for_status ==
    /\ pc = "send_line_message"
    /\ \E resp \in PostResults :
          /\ line' = line \o send_line_message(final_msg(video, summary), resp)
          /\ IF resp \in {"raise", "rejected"}
             THEN Except("send_error")
             ELSE /\ pc' = "append_row"
                  /\ UNCHANGED result
    /\ calls' = calls \cup {"line"}
    /\ UNCHANGED <<config, idx, locals, store, files, process, ghost, polls>>

\* final_msg = ...; send_line_message(final_msg), lines 157-158
Send ==
    /\ pc = "send_line_message"
    /\ \E resp \in PostResults :
          /\ line' = line \o send_line_message(final_msg(video, summary), resp)
          /\ IF resp = "raise"
             THEN Except("send_error")
             ELSE /\ pc' = "append_row"
                  /\ UNCHANGED result
    /\ calls' = calls \cup {"line"}
    /\ UNCHANGED <<config, idx, locals, store, files, process, ghost, polls>>

\* The answers of sheet.append_row: the row is written; the call raises
\* and no row is written; the call raises although the row was written.
AppendResults == {"ok", "raise", "raise_written"}

\* Mutant of commit: the row is appended without testing the handle.
commit_no_guard(st, handle, v, how) ==
    IF how \in {"ok", "raise_written"}
    THEN [st EXCEPT ![v] = @ + 1] ELSE st

\* if sheet: sheet.append_row([video['id'], ...]), lines 160-162
commit(st, handle, v, how) ==
    IF handle /\ how \in {"ok", "raise_written"}
    THEN [st EXCEPT ![v] = @ + 1] ELSE st

Commit ==
    /\ pc = "append_row"
    /\ \E how \in AppendResults :
          /\ store' = commit(store, sheet, video, how)
          /\ result' = IF ~sheet THEN "notified"
                       ELSE IF how = "ok" THEN "committed"
                       ELSE "commit_error"
    /\ pc' = "finally"
    /\ calls' = IF sheet THEN calls \cup {"sheet_append"} ELSE calls
    /\ UNCHANGED <<config, idx, locals, files, line, process, ghost, polls>>

\* Mutant of Finally: the row is appended in the finally clause, whatever
\* happened in the try block.
Finally_marks ==
    /\ pc = "finally"
    /\ files' = remove(files, audio_file)
    /\ store' = IF sheet /\ result # "committed"
                THEN [store EXCEPT ![video] = @ + 1] ELSE store
    /\ pc' = "return"
    /\ UNCHANGED <<config, idx, locals, result, line, process, ghost, calls,
                   polls>>

\* finally: if os.path.exists(audio_file): os.remove(audio_file)
\* (lines 166-168), then process_channel returns
Finally ==
    /\ pc = "finally"
    /\ files' = remove(files, audio_file)
    /\ pc' = "return"
    /\ UNCHANGED <<config, idx, locals, result, store, line, process,
                   ghost, calls, polls>>

Next ==
    \/ CallProcessChannel
    \/ MainReturn
    \/ NextRun
    \/ LoopNext
    \/ GetLatestVideo
    \/ CheckIfProcessed
    \/ WriteCookies
    \/ YdlDownload
    \/ Upload
    \/ Poll
    \/ Generate
    \/ Send
    \/ Commit
    \/ Finally

Spec == Init /\ [][Next]_vars

\* A round of the polling loop (lines 115-118) that keeps it going: get_file
\* answers PROCESSING again.
KeepPolling == Poll /\ pc' = "poll" /\ file_state' = "PROCESSING"

\* A round of the polling loop that ends it: get_file answers another state
\* than PROCESSING, or raises.
LeavePolling == Poll /\ ~(pc' = "poll" /\ file_state' = "PROCESSING")

\* The program is one thread that runs whenever it can, and each call to a
\* collaborator returns (WF on Next); each uploaded file leaves the
\* PROCESSING state after finitely many rounds of polling (WF on
\* LeavePolling, which stays enabled as long as the loop runs).
FairSpec == Spec /\ WF_vars(Next) /\ WF_vars(LeavePolling)

\* The same without the assumption on the uploaded file.
CallsReturnSpec == Spec /\ WF_vars(Next)

(***************************************************************************)
(* Properties.                                                             *)
(***************************************************************************)

\* a process_channel call is in progress or has just ended
InCall == pc \notin {"main", "exit"}

\* the current item had a row in the sheet when the call began
Marked == video # NoVideo /\ store0[video] > 0

\* the sheet as it is after exactly one more row for v
PlusOne(st, v) == [st EXCEPT ![v] = @ + 1]

\* the notifier was called in this call and returned
Notified == Len(line) >= 1 /\ line[Len(line)].resp # "raise"

\* C1 as stated: a call of process_channel on an item that already has a
\* marker sends no notification and appends no marker.
C1_Idempotence ==
    (InCall /\ Marked) => (store = store0 /\ line = <<>>)

\* C1 as amended: a call of process_channel on an item that already has a
\* marker never appends a marker; when its read of the sheet succeeded
\* (a handle is held) it sends no notification and returns as skipped.
\* When the read fails the check fails open and the item may be notified
\* again.
C1_IdempotenceWhenRead ==
    (InCall /\ Marked) =>
        /\ store = store0
        /\ sheet => (line = <<>> /\ pc = "return" /\ result = "skipped")

C1_Witness ==
    /\ pc = "return" /\ Marked /\ sheet /\ result = "skipped"
    /\ store = store0 /\ line = <<>>

\* C2: when the download yields no file or the analysis raises, the call
\* appends no marker; and an item without a marker is never skipped, so the
\* next run that finds it attempts it again.
C2_NoMarkOnFailure ==
    /\ (pc = "return" /\ result \in {"download_failed", "analysis_error"})
          => store = store0
    /\ (pc = "return" /\ result = "skipped") => store0[video] > 0

C2_Witness ==
    /\ pc = "return" /\ result = "analysis_error" /\ sheet
    /\ store[video] = 0

\* C3: whenever a call has appended a marker, it appended exactly one, for
\* its own item, after exactly one notifier call for that item, which
\* returned.
C3_NotifyBeforeCommit ==
    (InCall /\ store # store0) =>
        /\ store = PlusOne(store0, video)
        /\ Len(line) = 1
        /\ line[1].resp # "raise"
        /\ line[1].text.item = video

C3_Witness ==
    pc = "finally" /\ store # store0 /\ line[1].resp = "rejected"

Skips == {"no_video", "skipped", "download_failed", "analysis_error",
          "send_error", "commit_error"}

C6_StagedAudioCleanup ==
    (pc = "return" /\ tried # <<>>) =>
        (files[RawFile] # video /\ files[FinalFile] # video)

C8_AtMostOneMarker ==
    \A v \in Videos : store[v] <= 1

C8_Witness ==
    /\ pc = "return" /\ Marked /\ ~sheet /\ Notified
    /\ Len(CHANNEL_IDS) = 2 /\ CHANNEL_IDS[1] = CHANNEL_IDS[2]
    /\ store[video] = 1

\* send_line_message has been called in this call
Sent ==
    \/ pc = "append_row"
    \/ pc \in {"finally", "return"}
         /\ result \in {"send_error", "committed", "notified", "commit_error"}

\* C9: a call makes one push call per message given to send_line_message,
\* none otherwise, and the text pushed is the first 4000 characters of the
\* message, the whole message when it has no more than 4000.
C9_Truncation ==
    InCall =>
        IF Sent
        THEN /\ Len(line) = 1
             /\ line[1].text.item = video
             /\ line[1].text.of = summary.of
             /\ line[1].text.len =
                   IF HeaderLen + summary.len <= 4000
                   THEN HeaderLen + summary.len ELSE 4000
        ELSE line = <<>>

C9_Witness ==
    /\ Sent /\ HeaderLen + summary.len > 4000
    /\ Len(line) = 1 /\ line[1].text.len = 4000

\* C10: a run with an empty source list ends with a non-zero exit status
\* after logging an error.
C10_EmptyListAborts ==
    (pc = "exit" /\ CHANNEL_IDS = <<>>) => (exit_code # 0 /\ errors > 0)


\* C11: when the push call was answered with a non-success response,
\* send_line_message has not raised (the call does not end as a send error),
\* and with the sheet handle held append_row is called; unless append_row
\* itself raises, the sheet then has exactly one more row for the item.
C11_DeliveryFailureCommits ==
    (pc = "return" /\ Len(line) = 1 /\ line[1].resp = "rejected") =>
        /\ result \in {"notified", "committed", "commit_error"}
        /\ sheet => /\ "sheet_append" \in calls
                    /\ result = "committed" => store = PlusOne(store0, video)

C11_Witness ==
    /\ pc = "return" /\ Len(line) = 1 /\ line[1].resp = "rejected"
    /\ sheet /\ result = "committed" /\ store = PlusOne(store0, video)

\* C12: whenever the credentials are missing or the read of the sheet raised
\* (the call holds no handle after the check), the check has not raised and
\* has reported the item as not processed: the call is not a skip and has
\* gone on to download_audio.  Without credentials the sheet is not read.
C12_FailsOpen ==
    /\ (InCall /\ ~GCP_SA_KEY) => (~sheet /\ "sheet_read" \notin calls)
    /\ (InCall /\ video # NoVideo /\ pc # "check_if_processed" /\ ~sheet) =>
           /\ result # "skipped"
           /\ pc = "download_audio" \/ tried = <<"audio">>
    /\ (InCall /\ result = "error") => tried = <<"audio">>

C12_Witness ==
    pc = "ydl_download" /\ GCP_SA_KEY /\ ~sheet /\ Marked /\ tried = <<"audio">>

\* C13: get_latest_video never raises, and when it returns no item
\* process_channel returns at once: only the feed was called (no sheet
\* read, no download, no analysis, no notification), and the sheet and the
\* working directory are as they were.
C13_DiscoveryNeverRaises ==
    /\ (InCall /\ pc # "get_latest_video" /\ video = NoVideo) =>
           /\ pc = "return" /\ result = "no_video"
           /\ calls = {"feed"}
           /\ tried = <<>> /\ line = <<>> /\ ~sheet
           /\ store = store0 /\ files = files0
    /\ (InCall /\ result = "error") => video # NoVideo

C13_Witness ==
    /\ pc = "return" /\ result = "no_video" /\ video = NoVideo
    /\ calls = {"feed"} /\ CHANNEL_IDS[idx] = "UC_B"

\* C14 as stated: cookies.txt exists only while a download_audio call is in
\* progress (between the cookie write and the end of ydl.download); it is
\* gone on every way download_audio ends and is never there during
\* analysis, notification or commit.  Violated: a cookie write that raises
\* after open() created the file leaves cookies.txt behind.
C14_CredentialFileScope ==
    files[CookieFile] # Absent => pc = "ydl_download"

\* C15: generate_content is called only after the state of the uploaded
\* file was seen to be neither PROCESSING nor FAILED; a FAILED state raises
\* before generation, which ends this item only: nothing is sent, no row is
\* appended, and main goes on to the next source.
C15_PollingProtocol ==
    /\ "gemini_generate" \in calls =>
           file_state \in FileStates \ {"PROCESSING", "FAILED"}
    /\ pc \in {"send_line_message", "append_row"} => "gemini_generate" \in calls
    /\ (pc \in {"finally", "return"} /\ file_state = "FAILED") =>
           /\ result = "analysis_error"
           /\ "gemini_generate" \notin calls
           /\ line = <<>> /\ store = store0
    /\ (pc = "return" /\ file_state = "FAILED") =>
           /\ main_loop(result).pc = "main"
           /\ main_loop(result).idx = idx + 1
           /\ main_loop(result).exit_code = -1

C15_Witness ==
    /\ pc = "return" /\ file_state = "FAILED" /\ result = "analysis_error"
    /\ line = <<>> /\ sheet /\ store = store0 /\ idx < Len(CHANNEL_IDS)

\* when the loop of main is over, every source has been processed
RunFinished == pc = "exit" /\ exit_code = 0 /\ idx = Len(CHANNEL_IDS) + 1

\* main goes through CHANNEL_IDS in order: process_channel is called for the
\* source at idx, idx moves on by one when that call is over and in no other
\* way within a run, and the run ends only after the last source.
OnceEach ==
    /\ idx' # idx => \/ pc = "return" /\ idx' = idx + 1
                     \/ pc = "exit" /\ idx' = 1
    /\ (pc = "main" /\ pc' # "main") =>
           \/ pc' = "get_latest_video" /\ idx \in 1..Len(CHANNEL_IDS)
           \/ pc' = "exit" /\ idx = Len(CHANNEL_IDS) + 1
    /\ (pc # "main" /\ pc' = "main") =>
           \/ pc = "return" /\ idx' = idx + 1
           \/ pc = "exit" /\ idx' = 1

\* C16: when every call returns and every uploaded file leaves PROCESSING,
\* a run that has started ends, having called process_channel once for each
\* source in order; and the polling loop has no bound of its own: as long as
\* the file is PROCESSING, one more round of polling is possible.
C16_RunTerminates ==
    /\ (pc = "main" /\ idx = 1) ~> RunFinished
    /\ [][OnceEach]_vars
    /\ []((pc = "poll" /\ file_state = "PROCESSING") => ENABLED KeepPolling)

\* C16, second half: without the assumption on the uploaded file the run
\* need not end (violated under CallsReturnSpec by a run that polls forever).
C16_TerminatesUnassisted == (pc = "poll") ~> (pc # "poll")

C16_Witness ==
    /\ pc = "poll" /\ file_state = "PROCESSING" /\ polls = 1
    /\ idx = Len(CHANNEL_IDS) /\ idx > 1

\* C17: a call that ends as a skip has called only the feed and read the
\* sheet: no download, no analyzer call, no notifier call, no append; it has
\* created neither cookies.txt nor an audio file (the working directory is
\* as it was), and the sheet is unchanged.
C17_SkipLeavesUnchanged ==
    (InCall /\ result = "skipped") =>
        /\ pc = "return" /\ Marked /\ sheet
        /\ calls = {"feed", "sheet_read"}
        /\ tried = <<>> /\ line = <<>>
        /\ audio_file = None /\ summary = NoSummary
        /\ files = files0 /\ store = store0

C17_Witness ==
    /\ pc = "return" /\ result = "skipped" /\ Marked
    /\ calls = {"feed", "sheet_read"} /\ files = files0 /\ store = store0
    /\ COOKIES_CONTENT

\* C18: the sheet changes only through the handle that this call's own
\* successful read returned, by one row for the item it read as unmarked;
\* in a call whose read failed or that has no credentials no append is
\* attempted and the sheet stays as it was, while an analysed item is still
\* posted, so the item is as unmarked after the call as before it.
C18_NoCommitWithoutRead ==
    /\ (InCall /\ store # store0) =>
           /\ sheet /\ "sheet_read" \in calls
           /\ store0[video] = 0 /\ store = PlusOne(store0, video)
    /\ "sheet_append" \in calls => (sheet /\ "sheet_read" \in calls)
    /\ (InCall /\ ~sheet) => (store = store0 /\ "sheet_append" \notin calls)
    /\ (pc \in {"finally", "return"} /\ ~sheet /\ summary # NoSummary) =>
           /\ Len(line) = 1 /\ line[1].text.item = video
           /\ result \in {"notified", "send_error"}
    /\ (InCall /\ result = "notified") => (~sheet /\ store = store0)

C18_Witness ==
    /\ pc = "return" /\ result = "notified" /\ ~sheet /\ GCP_SA_KEY
    /\ Marked /\ Len(line) = 1 /\ store = store0
    /\ "sheet_append" \notin calls

\* C19 as stated: the audio file handed to the analyzer was written by this
\* call's download of this item, and what is posted under an item's title
\* is the analysis of that item's audio.  Violated: a raw file temp_audio
\* left by an earlier download (C6) is converted and analysed in place of
\* the next item's audio.
C19_ContentBelongsToItem ==
    /\ pc \in {"upload", "poll"} => files[audio_file] = video
    /\ \A i \in 1..Len(line) : line[i].text.of = line[i].text.item

\* what one process_channel call has posted: nothing outside a call, at most
\* one message in a call, and that one for the item of the source at idx,
\* after the check reported it unprocessed (the call went on to the
\* download), the download returned temp_audio.mp3 and the analysis
\* returned a summary
OnePostPerCall ==
    /\ ~InCall => line = <<>>
    /\ Len(line) <= 1
    /\ Len(line) = 1 =>
           /\ pc \in {"append_row", "finally", "return"}
           /\ idx \in 1..Len(CHANNEL_IDS)
           /\ video \in VideosOf(CHANNEL_IDS[idx])
           /\ line[1].text.item = video
           /\ result # "skipped" /\ ~(sheet /\ Marked)
           /\ tried = <<"audio">> /\ "ydl" \in calls
           /\ audio_file = FinalFile
           /\ "gemini_generate" \in calls /\ summary # NoSummary

\* C20: in every run send_line_message is called at most once for each
\* entry of CHANNEL_IDS (one process_channel call per entry, at most one
\* post per call), and only for an item that the check reported
\* unprocessed, whose download produced a file and whose analysis returned
\* a summary.
C20_AtMostOneNotification == []OnePostPerCall /\ [][OnceEach]_vars

C20_Witness ==
    /\ pc = "return" /\ Len(line) = 1 /\ idx = 2
    /\ CHANNEL_IDS[1] = CHANNEL_IDS[2] /\ result = "notified"
=============================================================================
